---------------------------- MODULE Spec2Model ----------------------------
(***************************************************************************)
(* line2vec: the weighted line graph, the edge index map, the sphere       *)
(* initializer, the penalty error and the orchestrating loop of            *)
(* learn_embeddings (src/src/main.py, src/src/error.py).                   *)
(*                                                                         *)
(* Numbers.  Modified edge weights are kept in fixed point, one unit being *)
(* the floor epsilon = 0.00001 of modify_edge_weights; ln is the sum of    *)
(* the rounded logarithms of the prime factors.  A quotient is a pair      *)
(* <<numerator, denominator>>; a denominator of 0 stands for the inf/nan   *)
(* numpy produces on a division by zero.  Radii are kept squared.          *)
(***************************************************************************)
EXTENDS Integers, Sequences, FiniteSets, TLC

\* Nodes of G are 0 .. MaxNode-1; G has at most MaxEdges edges.
MaxNode == 3

MaxEdges == 3

\* The sphere initializer and the penalty error are run on graphs of at most
\* MaxSphereEdges edges, with embedding coordinates in 0 .. MaxCoord.
MaxSphereEdges == 2

MaxCoord == 1

\* args.l2v_iter is drawn from 0 .. MaxIter.
MaxIter == 3

\* beta = 0.01 and eta = 0.001 of learn_embeddings and the defaults of
\* update_optimization_params; beta is counted in units of 0.01, eta in units
\* of 0.001.
InitialBeta == 1

InitialEta == 1

DefaultBeta == 1

DefaultEta == 1

\* epsilon of modify_edge_weights, in fixed-point units.
epsilon == 1

VARIABLES
  G,                  \* nx_G: the set of edges, each a sorted pair <<u, v>>
  gorient,            \* orientation in which G.edges() reports an edge
  lorient,            \* orientation in which L.edges() reports an edge
  pc,                 \* position in main / learn_embeddings
  edge_weight_dict,   \* modify_edge_weights' result
  node_weight_dict,   \* prepare_node_weights' result
  li,                 \* loop position in build_weighted_line_graph
  line_graph_edge_weight_dict,
  trace,              \* locals of each loop body of build_weighted_line_graph so far
  edge_map, reverse_edge_map, index,
  nodes,              \* np.array(nx_G.nodes())
  neighbors,          \* node -> list of its neighbors
  embeddings,         \* the embedding matrix, one row per edge index
  centers, radius,    \* the spheres, one per position of nodes
  si,                 \* loop position in initialize_params / measure_penalty_error
  error,              \* measure_penalty_error's accumulator
  l2v_iter,           \* args.l2v_iter
  iter,               \* i of the loop of learn_embeddings
  beta, eta,          \* the hyper-parameters of learn_embeddings
  syn0,               \* model.syn0
  seq,                \* number of values computed outside this module so far
  calls,              \* every call made by learn_embeddings so far, in order
  saved               \* what save_word2vec_format wrote

svars == <<nodes, neighbors, embeddings, centers, radius, si, error>>

lvars == <<l2v_iter, iter, beta, eta, syn0, seq, calls, saved>>

gvars == <<G, gorient, lorient, pc, edge_weight_dict, node_weight_dict, li,
           line_graph_edge_weight_dict, trace, edge_map, reverse_edge_map, index>>

gvars_but_pc == <<G, gorient, lorient, edge_weight_dict, node_weight_dict, li,
                  line_graph_edge_weight_dict, trace, edge_map, reverse_edge_map,
                  index>>

vars == <<gvars, svars, lvars>>

-----------------------------------------------------------------------------
(* Small helpers *)

Max(a, b) == IF a >= b THEN a ELSE b

Abs(a) == IF a >= 0 THEN a ELSE -a

Nodes == 0 .. (MaxNode - 1)

\* Every edge a simple undirected graph with self-loops can hold.
AllEdges == {e \in Nodes \X Nodes : e[1] <= e[2]}

EdgeLess(e, f) == e[1] < f[1] \/ (e[1] = f[1] /\ e[2] < f[2])

RECURSIVE SortEdges(_)
SortEdges(S) ==
  IF S = {} THEN <<>>
  ELSE LET m == CHOOSE e \in S : \A f \in S \ {e} : EdgeLess(e, f)
       IN  <<m>> \o SortEdges(S \ {m})

RECURSIVE SumOver(_, _)
SumOver(f, S) ==
  IF S = {} THEN 0
  ELSE LET x == CHOOSE y \in S : TRUE IN f[x] + SumOver(f, S \ {x})

-----------------------------------------------------------------------------
(* The graph model (networkx Graph) *)

NodesOf(g) == {e[1] : e \in g} \cup {e[2] : e \in g}

\* G.neighbors(n): a self-loop makes n its own neighbor, once.
Neighbors(g, n) ==
  {e[2] : e \in {f \in g : f[1] = n}} \cup {e[1] : e \in {f \in g : f[2] = n}}

\* G.degree(): a self-loop counts twice.
degree_dict(g) ==
  [n \in NodesOf(g) |->
     Cardinality({e \in g : e[1] = n}) + Cardinality({e \in g : e[2] = n})]

\* G.edges(): every edge once, as a tuple in the orientation of the node order.
Oriented(e, o) == IF o = "asc" THEN e ELSE <<e[2], e[1]>>

GEdges(g, o) == [i \in 1 .. Cardinality(g) |-> Oriented(SortEdges(g)[i], o)]

\* nx.line_graph(G): nodes are the sorted edges of G, two of them adjacent
\* when they share an endpoint.
LineGraph(g) ==
  {p \in g \X g : EdgeLess(p[1], p[2])
                  /\ ({p[1][1], p[1][2]} \cap {p[2][1], p[2][2]}) # {}}

RECURSIVE SortPairs(_)
SortPairs(S) ==
  IF S = {} THEN <<>>
  ELSE LET m == CHOOSE p \in S : \A q \in S \ {p} :
                   EdgeLess(p[1], q[1]) \/ (p[1] = q[1] /\ EdgeLess(p[2], q[2]))
       IN  <<m>> \o SortPairs(S \ {m})

\* L.edges(): every line-graph edge once, in the orientation of L's node order.
LEdges(g, o) ==
  LET s == SortPairs(LineGraph(g))
  IN  [i \in 1 .. Len(s) |-> IF o = "asc" THEN s[i] ELSE <<s[i][2], s[i][1]>>]

-----------------------------------------------------------------------------
(* Arithmetic *)

\* ln of the primes, in fixed-point units of 0.00001.
LnPrime ==
  [p \in {2, 3, 5, 7, 11, 13, 17, 19, 23, 29, 31} |->
     CASE p = 2 -> 69315   [] p = 3 -> 109861  [] p = 5 -> 160944
       [] p = 7 -> 194591  [] p = 11 -> 239790 [] p = 13 -> 256495
       [] p = 17 -> 283321 [] p = 19 -> 294444 [] p = 23 -> 313549
       [] p = 29 -> 336730 [] p = 31 -> 343399]

\* np.log of a positive integer.
RECURSIVE LnFP(_)
LnFP(n) ==
  IF n = 1 THEN 0
  ELSE LET p == CHOOSE q \in 2 .. n :
                  n % q = 0 /\ \A r \in 2 .. (q - 1) : n % r # 0
       IN  LnPrime[p] + LnFP(n \div p)

\* np.log(float(num) / den)
np_log(num, den) == LnFP(num) - LnFP(den)

\* A quotient <<n, d>> with the sign carried by the numerator.
RatNorm(r) == IF r[2] < 0 THEN <<0 - r[1], 0 - r[2]>> ELSE r

RatMul(x, y) == <<x[1] * y[1], x[2] * y[2]>>

RatEq(x, y) == x[2] # 0 /\ y[2] # 0 /\ x[1] * y[2] = y[1] * x[2]

RatFinite(r) == r[2] # 0

\* a/b <= c/d for a, c >= 0 and b, d > 0, without forming the cross products.
RECURSIVE FracLeq(_, _, _, _)
FracLeq(a, b, c, d) ==
  LET qa == a \div b
      qc == c \div d
      ra == a % b
      rc == c % d
  IN  IF qa # qc THEN qa < qc
      ELSE IF ra = 0 THEN TRUE
      ELSE IF rc = 0 THEN FALSE
      ELSE FracLeq(d, rc, b, ra)

\* (x + y) / 2 >= 0 for finite quotients x and y.
MeanNonNeg(x, y) ==
  LET a == RatNorm(x)
      b == RatNorm(y)
  IN  IF a[1] >= 0 /\ b[1] >= 0 THEN TRUE
      ELSE IF a[1] < 0 /\ b[1] < 0 THEN FALSE
      ELSE IF a[1] < 0 THEN FracLeq(0 - a[1], a[2], b[1], b[2])
      ELSE FracLeq(0 - b[1], b[2], a[1], a[2])

-----------------------------------------------------------------------------
(* modify_edge_weights, prepare_node_weights *)

modify_edge_weights(g) ==
  LET deg == degree_dict(g)
      total_degree == SumOver(deg, DOMAIN deg)
  IN  [e \in g |->
         Max(np_log(total_degree, deg[e[1]] * deg[e[2]]) + epsilon, epsilon)]

prepare_node_weights(g, ewd) ==
  [n \in NodesOf(g) |->
     SumOver([nb \in Neighbors(g, n) |->
                IF <<n, nb>> \in DOMAIN ewd THEN ewd[<<n, nb>>]
                ELSE ewd[<<nb, n>>]],
             Neighbors(g, n))]

-----------------------------------------------------------------------------
(* build_weighted_line_graph: one pass of the loop body *)

\* Lines 252-263: the shared vertex and the two far endpoints.
Endpoints(e1, e2) ==
  LET cv == {e1[1], e1[2]} \cap {e2[1], e2[2]}
      sv == {e1[1], e1[2]} \ cv
      ev == {e2[1], e2[2]} \ cv
  IN  IF Cardinality(cv) = 1 /\ sv # {} /\ ev # {}
      THEN [common |-> CHOOSE x \in cv : TRUE,
            start  |-> CHOOSE x \in sv : TRUE,
            end    |-> CHOOSE x \in ev : TRUE,
            fallback |-> FALSE]
      ELSE [common |-> e1[2], start |-> e1[1], end |-> e2[2],
            fallback |-> TRUE]

\* Lines 265-271.
weight_contri_src_edge_1(deg, start, common) ==
  LET degree_start_vertex_edge_1 == deg[start]
      degree_end_vertex_edge_1 == deg[common]
  IN  IF degree_start_vertex_edge_1 = 1 THEN <<1, 1>>
      ELSE <<degree_start_vertex_edge_1,
             degree_start_vertex_edge_1 + degree_end_vertex_edge_1>>

\* Lines 284-290.
weight_contri_src_edge_2(deg, end, common) ==
  LET degree_start_vertex_edge_2 == deg[end]
      degree_end_vertex_edge_2 == deg[common]
  IN  IF degree_end_vertex_edge_2 = 1 THEN <<1, 1>>
      ELSE <<degree_start_vertex_edge_2,
             degree_start_vertex_edge_2 + degree_end_vertex_edge_2>>

\* The division without its guard.
weight_contri_dest_edge_unguarded(weight_dest_edge, weighted_degree_common_vertex, weight_src_edge) ==
  [val |-> <<weight_dest_edge, weighted_degree_common_vertex - weight_src_edge>>,
   diag |-> FALSE, divided |-> TRUE]

\* The denominator with its operands exchanged.
weight_contri_dest_edge_reversed(weight_dest_edge, weighted_degree_common_vertex, weight_src_edge) ==
  IF (weight_src_edge - weighted_degree_common_vertex) = 0
  THEN [val |-> <<0, 1>>, diag |-> TRUE, divided |-> FALSE]
  ELSE [val |-> <<weight_dest_edge, weight_src_edge - weighted_degree_common_vertex>>,
        diag |-> FALSE, divided |-> TRUE]

\* Lines 276-280 and 295-299: the guarded division.  divided tells that the
\* division was evaluated, diag that 'In impossible case!' was printed.
weight_contri_dest_edge(weight_dest_edge, weighted_degree_common_vertex, weight_src_edge) ==
  IF (weighted_degree_common_vertex - weight_src_edge) = 0
  THEN [val |-> <<0, 1>>, diag |-> TRUE, divided |-> FALSE]
  ELSE [val |-> <<weight_dest_edge, weighted_degree_common_vertex - weight_src_edge>>,
        diag |-> FALSE, divided |-> TRUE]

\* Lines 250-301 for one line-graph edge.
LoopBody(g, ewd, nwd, line_graph_edge) ==
  LET original_graph_edge_1 == line_graph_edge[1]
      original_graph_edge_2 == line_graph_edge[2]
      ep == Endpoints(original_graph_edge_1, original_graph_edge_2)
      deg == degree_dict(g)
      src1 == weight_contri_src_edge_1(deg, ep.start, ep.common)
      dest1 == weight_contri_dest_edge(ewd[original_graph_edge_2],
                                       nwd[ep.common], ewd[original_graph_edge_1])
      src2 == weight_contri_src_edge_2(deg, ep.end, ep.common)
      dest2 == weight_contri_dest_edge(ewd[original_graph_edge_1],
                                       nwd[ep.common], ewd[original_graph_edge_2])
  IN  [edge |-> line_graph_edge, ep |-> ep,
       src1 |-> src1, dest1 |-> dest1, den1 |-> nwd[ep.common] - ewd[original_graph_edge_1],
       src2 |-> src2, dest2 |-> dest2, den2 |-> nwd[ep.common] - ewd[original_graph_edge_2],
       line_graph_edge_weight_1 |-> RatMul(src1, dest1.val),
       line_graph_edge_weight_2 |-> RatMul(src2, dest2.val)]

-----------------------------------------------------------------------------
(* The graph construction phase of main (args.scratch) *)

Graphs == {g \in SUBSET AllEdges : g # {} /\ Cardinality(g) <= MaxEdges}

Orientations == {"asc", "desc"}

GraphInit ==
  /\ G \in Graphs
  /\ gorient \in Orientations
  /\ lorient \in Orientations
  /\ pc = "weights"
  /\ edge_weight_dict = <<>>
  /\ node_weight_dict = <<>>
  /\ li = 0
  /\ line_graph_edge_weight_dict = <<>>
  /\ trace = <<>>
  /\ edge_map = <<>>
  /\ reverse_edge_map = <<>>
  /\ index = 0
  /\ nodes = <<>>
  /\ neighbors = <<>>
  /\ embeddings = <<>>
  /\ centers = <<>>
  /\ radius = <<>>
  /\ si = 0
  /\ error = <<0, 1>>
  /\ l2v_iter = 0
  /\ iter = 0
  /\ beta = InitialBeta
  /\ eta = InitialEta
  /\ syn0 = <<>>
  /\ seq = 0
  /\ calls = <<>>
  /\ saved = <<>>

\* Lines 244-248.
BuildBegin ==
  /\ pc = "weights"
  /\ edge_weight_dict' = modify_edge_weights(G)
  /\ node_weight_dict' = prepare_node_weights(G, modify_edge_weights(G))
  /\ li' = 1
  /\ pc' = "build"
  /\ UNCHANGED <<G, gorient, lorient, line_graph_edge_weight_dict, trace,
                 edge_map, reverse_edge_map, index>>
  /\ UNCHANGED svars
  /\ UNCHANGED lvars

\* Lines 249-301: the loop body for the next edge of L.edges().  The stored
\* weight <<w1, w2>> stands for (w1 + w2) / 2.
BuildStep ==
  /\ pc = "build"
  /\ li <= Len(LEdges(G, lorient))
  /\ LET lge == LEdges(G, lorient)[li]
         b == LoopBody(G, edge_weight_dict, node_weight_dict, lge)
     IN  /\ trace' = Append(trace, b)
         /\ line_graph_edge_weight_dict' =
              [k \in DOMAIN line_graph_edge_weight_dict \cup {lge} |->
                 IF k = lge
                 THEN <<b.line_graph_edge_weight_1, b.line_graph_edge_weight_2>>
                 ELSE line_graph_edge_weight_dict[k]]
  /\ li' = li + 1
  /\ UNCHANGED <<G, gorient, lorient, pc, edge_weight_dict, node_weight_dict,
                 edge_map, reverse_edge_map, index>>
  /\ UNCHANGED svars
  /\ UNCHANGED lvars

\* Line 303 and lines 307-309.
BuildEnd ==
  /\ pc = "build"
  /\ li > Len(LEdges(G, lorient))
  /\ pc' = "map"
  /\ index' = 0
  /\ UNCHANGED <<G, gorient, lorient, edge_weight_dict, node_weight_dict, li,
                 line_graph_edge_weight_dict, trace, edge_map, reverse_edge_map>>
  /\ UNCHANGED svars
  /\ UNCHANGED lvars

\* The loop body without index += 1.
map_edge_step_no_increment(em, rem, idx, edge) ==
  [edge_map |-> [k \in DOMAIN em \cup {edge} |-> IF k = edge THEN idx ELSE em[k]],
   reverse_edge_map |-> [k \in DOMAIN rem \cup {idx} |-> IF k = idx THEN edge ELSE rem[k]],
   index |-> idx]

\* Lines 311-314: the loop body of map_edge_to_unique_index.
map_edge_step(em, rem, idx, edge) ==
  [edge_map |-> [k \in DOMAIN em \cup {edge} |-> IF k = edge THEN idx ELSE em[k]],
   reverse_edge_map |-> [k \in DOMAIN rem \cup {idx} |-> IF k = idx THEN edge ELSE rem[k]],
   index |-> idx + 1]

MapStep ==
  /\ pc = "map"
  /\ index < Len(GEdges(G, gorient))
  /\ LET r == map_edge_step(edge_map, reverse_edge_map, index,
                            GEdges(G, gorient)[index + 1])
     IN  /\ edge_map' = r.edge_map
         /\ reverse_edge_map' = r.reverse_edge_map
         /\ index' = r.index
  /\ UNCHANGED <<G, gorient, lorient, pc, edge_weight_dict, node_weight_dict, li,
                 line_graph_edge_weight_dict, trace>>
  /\ UNCHANGED svars
  /\ UNCHANGED lvars

\* Line 326.
MapEnd ==
  /\ pc = "map"
  /\ index >= Len(GEdges(G, gorient))
  /\ pc' = "mapped"
  /\ UNCHANGED gvars_but_pc
  /\ UNCHANGED svars
  /\ UNCHANGED lvars

GraphNext == BuildBegin \/ BuildStep \/ BuildEnd \/ MapStep \/ MapEnd

SpecGraph == GraphInit /\ [][GraphNext]_vars

-----------------------------------------------------------------------------
(* Claims about the graph construction phase *)

\* The edges map_edge_to_unique_index has gone through.
MappedEdges == {GEdges(G, gorient)[i] : i \in 1 .. index}

\* C1: the pair (edge_map, reverse_edge_map) is a bijection between the edges
\* of G and 0 .. E-1: reverse_edge_map[edge_map[e]] = e for every edge, every
\* index is used, none twice; it holds of the edges mapped so far at every
\* step of the loop and of all of G's edges on return.
C1_IndexBijection ==
  pc \in {"map", "mapped"} =>
    /\ index <= Cardinality(G)
    /\ DOMAIN edge_map = MappedEdges
    /\ DOMAIN reverse_edge_map = 0 .. (index - 1)
    /\ \A e \in DOMAIN edge_map : /\ edge_map[e] \in DOMAIN reverse_edge_map
                                  /\ reverse_edge_map[edge_map[e]] = e
    /\ {edge_map[e] : e \in DOMAIN edge_map} = 0 .. (index - 1)
    /\ \A e \in DOMAIN edge_map, f \in DOMAIN edge_map :
         edge_map[e] = edge_map[f] => e = f
    /\ pc = "mapped" =>
         /\ index = Cardinality(G)
         /\ DOMAIN edge_map = {Oriented(e, gorient) : e \in G}

C1_Witness == pc = "mapped" /\ Cardinality(G) = MaxEdges /\ gorient = "desc"

\* The degree-contribution factor the specification gives for a far endpoint.
DegreeFactor(deg, far, common) ==
  IF deg[far] = 1 THEN <<1, 1>> ELSE <<deg[far], deg[far] + deg[common]>>

\* C5: for every line-graph edge and each of the two directions, the
\* degree-contribution factor is 1 if the far endpoint (start for e1, end for
\* e2) has degree 1 and far_degree / (far_degree + common_degree) otherwise
\* (stated of the edges that share exactly one vertex).
C5_DegreeContribution ==
  \A i \in 1 .. Len(trace) :
    LET t == trace[i]
        deg == degree_dict(G)
    IN  ~t.ep.fallback =>
          /\ RatEq(t.src1, DegreeFactor(deg, t.ep.start, t.ep.common))
          /\ RatEq(t.src2, DegreeFactor(deg, t.ep.end, t.ep.common))

\* The edges of L.edges() the loop has gone through.
WeightedEdges == {LEdges(G, lorient)[i] : i \in 1 .. Len(trace)}

\* C6: whenever node_weight[common] - w(source edge) is exactly 0 the
\* weight-contribution factor of that direction is 0, no division by zero is
\* performed in either direction, and the loop goes on: the edge at hand and
\* every later one get a weight.
C6_ZeroDenominator ==
  /\ \A i \in 1 .. Len(trace) :
       LET t == trace[i]
       IN  /\ t.den1 = 0 => (t.dest1.val = <<0, 1>> /\ t.dest1.diag)
           /\ t.den2 = 0 => (t.dest2.val = <<0, 1>> /\ t.dest2.diag)
           /\ t.dest1.divided => t.den1 # 0
           /\ t.dest2.divided => t.den2 # 0
           /\ RatFinite(t.dest1.val) /\ RatFinite(t.dest2.val)
           /\ t.edge \in DOMAIN line_graph_edge_weight_dict
  /\ DOMAIN line_graph_edge_weight_dict = WeightedEdges
  /\ pc \in {"map", "mapped"} =>
       Cardinality(DOMAIN line_graph_edge_weight_dict) = Cardinality(LineGraph(G))

\* A zero denominator was met and a later line-graph edge was weighted.
C6_Witness ==
  /\ pc = "map"
  /\ \E i \in 1 .. Len(trace) :
       /\ trace[i].den1 = 0 \/ trace[i].den2 = 0
       /\ i < Len(trace)

\* A well-formed input graph: no self-loop (a Graph holds no parallel edges).
WellFormed(g) == \A e \in g : e[1] # e[2]

\* C7: for a well-formed G with at least 2 edges, every edge of L gets a
\* weight, and every weight is finite and >= 0.
C7_WeightNonNegative ==
  (WellFormed(G) /\ Cardinality(G) >= 2) =>
    /\ \A k \in DOMAIN line_graph_edge_weight_dict :
         LET w == line_graph_edge_weight_dict[k]
         IN  /\ RatFinite(w[1]) /\ RatFinite(w[2])
             /\ MeanNonNeg(w[1], w[2])
    /\ \A i \in 1 .. Len(trace) : trace[i].den1 >= 0 /\ trace[i].den2 >= 0
    /\ DOMAIN line_graph_edge_weight_dict = WeightedEdges
    /\ pc \in {"map", "mapped"} =>
         Cardinality(DOMAIN line_graph_edge_weight_dict) = Cardinality(LineGraph(G))

C7_Witness ==
  /\ pc = "map"
  /\ WellFormed(G)
  /\ Cardinality(G) >= 2
  /\ Cardinality(DOMAIN line_graph_edge_weight_dict) >= 2

-----------------------------------------------------------------------------
(* Quotients of small integers *)

RECURSIVE Gcd(_, _)
Gcd(a, b) == IF b = 0 THEN a ELSE Gcd(b, a % b)

RatReduce(r) ==
  LET g == Gcd(Abs(r[1]), Abs(r[2]))
  IN  IF g = 0 THEN r ELSE RatNorm(<<r[1] \div g, r[2] \div g>>)

RatAdd(x, y) == RatReduce(<<x[1] * y[2] + y[1] * x[2], x[2] * y[2]>>)

RatSub(x, y) == RatReduce(<<x[1] * y[2] - y[1] * x[2], x[2] * y[2]>>)

\* x > y, for positive denominators.
RatGt(x, y) == x[1] * y[2] > y[1] * x[2]

RatMax(x, y) == IF RatGt(y, x) THEN y ELSE x

-----------------------------------------------------------------------------
(* initialize_params *)

\* np.array(nx_G.nodes()), in the node order of the graph.
NodeSeq(g, o) ==
  LET n == Cardinality(NodesOf(g))
      asc == [i \in 1 .. n |->
                CHOOSE v \in NodesOf(g) :
                  Cardinality({u \in NodesOf(g) : u < v}) = i - 1]
  IN  [i \in 1 .. n |-> IF o = "asc" THEN asc[i] ELSE asc[n + 1 - i]]

\* Lines 391-396 of main: neighbors[node] is the list of G.neighbors(node).
NeighborMap(g, o) ==
  [v \in NodesOf(g) |->
     LET nb == Neighbors(g, v)
         k == Cardinality(nb)
         asc == [i \in 1 .. k |->
                   CHOOSE x \in nb : Cardinality({u \in nb : u < x}) = i - 1]
     IN  [i \in 1 .. k |-> IF o = "asc" THEN asc[i] ELSE asc[k + 1 - i]]]

\* map_edge_to_unique_index as a whole (lines 307-314, 326).
RECURSIVE MapEdges(_, _)
MapEdges(edges, n) ==
  IF n = 0 THEN [edge_map |-> <<>>, reverse_edge_map |-> <<>>, index |-> 0]
  ELSE LET r == MapEdges(edges, n - 1)
       IN  map_edge_step(r.edge_map, r.reverse_edge_map, r.index, edges[n])

map_edge_to_unique_index(g, o) == MapEdges(GEdges(g, o), Cardinality(g))

\* np.where(nodes == n)[0][0]
np_where(nds, n) == CHOOSE i \in DOMAIN nds : nds[i] = n

VecAdd(x, y) == [d \in DOMAIN x |-> x[d] + y[d]]

\* Lines 134-138: the row of the edge between n_i and a neighbor.
edge_index_of(em, n_i, nb) ==
  IF <<n_i, nb>> \in DOMAIN em THEN em[<<n_i, nb>>] ELSE em[<<nb, n_i>>]

\* Lines 132-139: the sum of the rows of the first k neighbors' edges.
RECURSIVE CenterSum(_, _, _, _, _)
CenterSum(emb, em, n_i, neigh_i, k) ==
  IF k = 0 THEN [d \in DOMAIN emb[0] |-> 0]
  ELSE VecAdd(CenterSum(emb, em, n_i, neigh_i, k - 1),
              emb[edge_index_of(em, n_i, neigh_i[k])])

\* The sum of the rows, not divided by len(neigh_i).
center_of_unaveraged(emb, em, nbs, n_i) ==
  [num |-> CenterSum(emb, em, n_i, nbs[n_i], Len(nbs[n_i])), den |-> 1]

\* Lines 130-141: a center is the vector num / den.
center_of(emb, em, nbs, n_i) ==
  [num |-> CenterSum(emb, em, n_i, nbs[n_i], Len(nbs[n_i])),
   den |-> Len(nbs[n_i])]

\* np.linalg.norm(c1 - c2) squared, for two centers.
RECURSIVE SqSum(_, _)
SqSum(v, k) == IF k = 0 THEN 0 ELSE SqSum(v, k - 1) + v[k] * v[k]

CenterSqDist(c1, c2) ==
  RatReduce(<<SqSum([d \in DOMAIN c1.num |-> c1.num[d] * c2.den - c2.num[d] * c1.den],
                    Len(c1.num)),
              (c1.den * c2.den) * (c1.den * c2.den)>>)

\* Lines 150-157: np.max of the distances to the first k neighbors' centers
\* (squared); np.max of an empty list is not reached, every node having a
\* neighbor.
RECURSIVE MaxDist(_, _, _, _, _)
MaxDist(cs, nds, i, neighbors_i, k) ==
  LET d == CenterSqDist(cs[i], cs[np_where(nds, neighbors_i[k])])
  IN  IF k = 1 THEN d
      ELSE RatMax(MaxDist(cs, nds, i, neighbors_i, k - 1), d)

radius_of(cs, nds, nbs, i) == MaxDist(cs, nds, i, nbs[nds[i]], Len(nbs[nds[i]]))

-----------------------------------------------------------------------------
(* measure_penalty_error (src/src/error.py) *)

\* np.linalg.norm(X_uv - c) squared, for a row and a center.
RowSqDist(x, c) ==
  RatReduce(<<SqSum([d \in DOMAIN x |-> x[d] * c.den - c.num[d]], Len(x)),
              c.den * c.den>>)

\* The contribution added whether or not the distance exceeds the radius.
penalty_term_unguarded(x, c, r2) == RatSub(RowSqDist(x, c), r2)

\* Lines 18-19 and 20-21: one endpoint's contribution; r2 is the radius squared
\* and the radius itself is >= 0, so norm > r is norm^2 > r^2.
penalty_term(x, c, r2) ==
  IF RatGt(RowSqDist(x, c), r2) THEN RatSub(RowSqDist(x, c), r2) ELSE <<0, 1>>

\* Lines 8-21: the loop body for edge index i.
penalty_step(err, emb, cs, rs, rem, nds, i) ==
  LET edge == rem[i]
      n_u_ind == np_where(nds, edge[1])
      n_v_ind == np_where(nds, edge[2])
      X_uv == emb[i]
  IN  RatAdd(RatAdd(err, penalty_term(X_uv, cs[n_u_ind], rs[n_u_ind])),
             penalty_term(X_uv, cs[n_v_ind], rs[n_v_ind]))

-----------------------------------------------------------------------------
(* The sphere initializer followed by the penalty error oracle *)

SphereGraphs == {g \in Graphs : Cardinality(g) <= MaxSphereEdges}

Vectors == {<<x>> : x \in 0 .. MaxCoord}

SphereInit ==
  /\ G \in SphereGraphs
  /\ gorient \in Orientations
  /\ lorient = "asc"
  /\ pc = "centers"
  /\ edge_weight_dict = <<>>
  /\ node_weight_dict = <<>>
  /\ li = 0
  /\ line_graph_edge_weight_dict = <<>>
  /\ trace = <<>>
  /\ edge_map = map_edge_to_unique_index(G, gorient).edge_map
  /\ reverse_edge_map = map_edge_to_unique_index(G, gorient).reverse_edge_map
  /\ index = Cardinality(G)
  /\ nodes = NodeSeq(G, gorient)
  /\ neighbors = NeighborMap(G, gorient)
  /\ embeddings \in [0 .. (Cardinality(G) - 1) -> Vectors]
  /\ centers = <<>>
  /\ radius = <<>>
  /\ si = 1
  /\ error = <<0, 1>>
  /\ l2v_iter = 0
  /\ iter = 0
  /\ beta = InitialBeta
  /\ eta = InitialEta
  /\ syn0 = <<>>
  /\ seq = 0
  /\ calls = <<>>
  /\ saved = <<>>

\* Lines 129-141: the center of node i.
CenterStep ==
  /\ pc = "centers"
  /\ si <= Len(nodes)
  /\ centers' = Append(centers, center_of(embeddings, edge_map, neighbors, nodes[si]))
  /\ si' = si + 1
  /\ UNCHANGED <<gvars, nodes, neighbors, embeddings, radius, error>>
  /\ UNCHANGED lvars

\* Line 148.
CentersDone ==
  /\ pc = "centers"
  /\ si > Len(nodes)
  /\ pc' = "radius"
  /\ si' = 1
  /\ UNCHANGED gvars_but_pc
  /\ UNCHANGED <<nodes, neighbors, embeddings, centers, radius, error>>
  /\ UNCHANGED lvars

\* Lines 149-157: the radius of node i.
RadiusStep ==
  /\ pc = "radius"
  /\ si <= Len(nodes)
  /\ radius' = Append(radius, radius_of(centers, nodes, neighbors, si))
  /\ si' = si + 1
  /\ UNCHANGED <<gvars, nodes, neighbors, embeddings, centers, error>>
  /\ UNCHANGED lvars

\* Line 159.
InitReturn ==
  /\ pc = "radius"
  /\ si > Len(nodes)
  /\ pc' = "initialized"
  /\ UNCHANGED gvars_but_pc
  /\ UNCHANGED svars
  /\ UNCHANGED lvars

\* measure_penalty_error is called with an embedding matrix (the optimizer's
\* output, any matrix here) and the spheres at hand: lines 5-6 of error.py.
PenaltyCall ==
  /\ pc = "initialized"
  /\ embeddings' \in [DOMAIN embeddings -> Vectors]
  /\ error' = <<0, 1>>
  /\ si' = 0
  /\ pc' = "measure"
  /\ UNCHANGED gvars_but_pc
  /\ UNCHANGED <<nodes, neighbors, centers, radius>>
  /\ UNCHANGED lvars

\* Lines 7-21 of error.py: the loop body for edge index si.
MeasureStep ==
  /\ pc = "measure"
  /\ si < Cardinality(DOMAIN embeddings)
  /\ error' = penalty_step(error, embeddings, centers, radius, reverse_edge_map, nodes, si)
  /\ si' = si + 1
  /\ UNCHANGED <<gvars, nodes, neighbors, embeddings, centers, radius>>
  /\ UNCHANGED lvars

\* Line 23 of error.py.
MeasureReturn ==
  /\ pc = "measure"
  /\ si >= Cardinality(DOMAIN embeddings)
  /\ pc' = "measured"
  /\ UNCHANGED gvars_but_pc
  /\ UNCHANGED svars
  /\ UNCHANGED lvars

SphereNext ==
  CenterStep \/ CentersDone \/ RadiusStep \/ InitReturn \/ PenaltyCall
    \/ MeasureStep \/ MeasureReturn

SpecSphere == SphereInit /\ [][SphereNext]_vars

-----------------------------------------------------------------------------
(* Claims about the sphere initializer and the penalty error *)

\* The edges of G incident to node n.
IncidentEdges(n) == {e \in G : e[1] = n \/ e[2] = n}

\* The embedding row of an edge of G, found under either endpoint ordering.
RowOf(e) ==
  embeddings[IF e \in DOMAIN edge_map THEN edge_map[e] ELSE edge_map[<<e[2], e[1]>>]]

RECURSIVE RowSum(_)
RowSum(S) ==
  IF S = {} THEN [d \in DOMAIN embeddings[0] |-> 0]
  ELSE LET e == CHOOSE x \in S : TRUE IN VecAdd(RowOf(e), RowSum(S \ {e}))

CenterIsMean(i) ==
  LET inc == IncidentEdges(nodes[i])
  IN  /\ centers[i].den > 0
      /\ \A d \in DOMAIN centers[i].num :
           centers[i].num[d] * Cardinality(inc) = RowSum(inc)[d] * centers[i].den

RadiusIsMaxDistance(i) ==
  LET dist(m) == CenterSqDist(centers[i], centers[np_where(nodes, m)])
  IN  /\ radius[i][2] > 0
      /\ radius[i][1] >= 0
      /\ \A m \in Neighbors(G, nodes[i]) : ~RatGt(dist(m), radius[i])
      /\ \E m \in Neighbors(G, nodes[i]) : RatEq(dist(m), radius[i])

\* C8: every node having a neighbor, initialize_params gives each node the
\* arithmetic mean of the embedding rows of its incident edges as center and
\* the maximum distance from its center to its neighbors' centers as radius,
\* so every initial radius is >= 0.
C8_InitialSpheres ==
  pc \in {"centers", "radius", "initialized"} =>
    /\ \A i \in 1 .. Len(centers) : CenterIsMean(i)
    /\ \A i \in 1 .. Len(radius) : RadiusIsMaxDistance(i)
    /\ pc = "initialized" => (Len(centers) = Len(nodes) /\ Len(radius) = Len(nodes))

C8_Witness ==
  /\ pc = "initialized"
  /\ gorient = "desc"
  /\ \E i \in 1 .. Len(nodes) :
       /\ Len(neighbors[nodes[i]]) >= 2
       /\ radius[i][1] > 0
       /\ centers[i].num[1] % centers[i].den # 0

\* max(0, x) of a quotient.
Max0(x) == IF x[1] > 0 THEN x ELSE <<0, 1>>

\* max(0, |X_i - c_n|^2 - r_n^2) for edge index i and its endpoint n.
Violation(i, n) ==
  Max0(RatSub(RowSqDist(embeddings[i], centers[np_where(nodes, n)]),
              radius[np_where(nodes, n)]))

\* The embedding of edge index i lies within the ball of its endpoint n.
Within(i, n) ==
  ~RatGt(RowSqDist(embeddings[i], centers[np_where(nodes, n)]),
         radius[np_where(nodes, n)])

RECURSIVE PenaltySum(_)
PenaltySum(k) ==
  IF k = 0 THEN <<0, 1>>
  ELSE RatAdd(PenaltySum(k - 1),
              RatAdd(Violation(k - 1, reverse_edge_map[k - 1][1]),
                     Violation(k - 1, reverse_edge_map[k - 1][2])))

\* C4: with non-negative radii, measure_penalty_error returns the sum over all
\* edges (u,v) of max(0, |X_uv - c_u|^2 - r_u^2) + max(0, |X_uv - c_v|^2 - r_v^2);
\* the result is >= 0, and it is 0 exactly when every edge embedding lies within
\* both endpoint balls.
C4_PenaltyError ==
  pc \in {"measure", "measured"} =>
    /\ RatEq(error, PenaltySum(si))
    /\ error[1] >= 0 /\ error[2] > 0
    /\ pc = "measured" =>
         /\ si = Cardinality(G)
         /\ (error[1] = 0) <=>
              \A i \in DOMAIN embeddings :
                Within(i, reverse_edge_map[i][1]) /\ Within(i, reverse_edge_map[i][2])

\* A positive error with a conforming endpoint among the violating ones.
C4_Witness ==
  /\ pc = "measured"
  /\ Cardinality(G) >= 2
  /\ error[1] > 0
  /\ \E i \in DOMAIN embeddings : Within(i, reverse_edge_map[i][1])
  /\ \E i \in DOMAIN embeddings : ~Within(i, reverse_edge_map[i][2])

-----------------------------------------------------------------------------
(* learn_embeddings *)

\* A matrix computed outside this module (by Word2Vec, model.train,
\* update_embeddings, update_sphere) is named by the number of the computation
\* that produced it, and carries whether all its entries are finite.
Value(n, fin) == [by |-> n, finite |-> fin]

NoValue == Value(0, TRUE)

Call(fn, k, emb, cs, rs, b, e, out) ==
  [fn |-> fn, iter |-> k, embeddings |-> emb, centers |-> cs, radii |-> rs,
   beta |-> b, eta |-> e, out |-> out]

\* optimization.update_embeddings: the n-th outside computation.
update_embeddings(emb, cs, rs, b, e, n, fin) == Value(n, fin)

\* optimization.update_sphere: the n-th outside computation.
update_sphere(emb, cs, rs, b, e, n, fin) ==
  [centers |-> Value(n, fin), radii |-> Value(n, fin)]

\* The two phases fused: the spheres re-fitted against the input embeddings.
update_optimization_params_fused(emb, cs, rs, b, e, k, n, fins) ==
  LET penalty_embeddings == update_embeddings(emb, cs, rs, b, e, n + 1, fins[1])
      sphere == update_sphere(emb, cs, rs, b, e, n + 2, fins[2])
  IN  [penalty_embeddings |-> penalty_embeddings,
       centers |-> sphere.centers,
       radii |-> sphere.radii,
       calls |-> <<Call("update_embeddings", k, emb, cs, rs, b, e,
                        penalty_embeddings),
                   Call("update_sphere", k, emb, cs, rs, b, e, sphere)>>]

\* Lines 162-166.  fins tells whether each phase's result is finite; calls is
\* the two calls made, in order.
update_optimization_params(emb, cs, rs, b, e, k, n, fins) ==
  LET penalty_embeddings == update_embeddings(emb, cs, rs, b, e, n + 1, fins[1])
      sphere == update_sphere(penalty_embeddings, cs, rs, b, e, n + 2, fins[2])
  IN  [penalty_embeddings |-> penalty_embeddings,
       centers |-> sphere.centers,
       radii |-> sphere.radii,
       calls |-> <<Call("update_embeddings", k, emb, cs, rs, b, e,
                        penalty_embeddings),
                   Call("update_sphere", k, penalty_embeddings, cs, rs, b, e,
                        sphere)>>]

\* beta left as it is.
next_beta_constant(b) == b

\* Line 199.
next_beta(b) == b * 2

LearnInit ==
  /\ G = {}
  /\ gorient = "asc"
  /\ lorient = "asc"
  /\ pc = "learn"
  /\ edge_weight_dict = <<>>
  /\ node_weight_dict = <<>>
  /\ li = 0
  /\ line_graph_edge_weight_dict = <<>>
  /\ trace = <<>>
  /\ edge_map = <<>>
  /\ reverse_edge_map = <<>>
  /\ index = 0
  /\ nodes = <<>>
  /\ neighbors = <<>>
  /\ embeddings = <<>>
  /\ centers = NoValue
  /\ radius = NoValue
  /\ si = 0
  /\ error = <<0, 1>>
  /\ l2v_iter \in 0 .. MaxIter
  /\ iter = 0
  /\ beta = 0
  /\ eta = 0
  /\ syn0 = NoValue
  /\ seq = 0
  /\ calls = <<>>
  /\ saved = NoValue

\* Lines 174-187: Word2Vec trains the first embeddings, initialize_params
\* gives the first spheres, the hyper-parameters are set.
LearnBegin ==
  /\ pc = "learn"
  /\ syn0' = Value(seq + 1, TRUE)
  /\ centers' = Value(seq + 2, TRUE)
  /\ radius' = Value(seq + 2, TRUE)
  /\ seq' = seq + 2
  /\ beta' = InitialBeta
  /\ eta' = InitialEta
  /\ iter' = 0
  /\ pc' = "loop"
  /\ UNCHANGED <<gvars_but_pc, nodes, neighbors, embeddings, si, error,
                 l2v_iter, calls, saved>>

\* Lines 190-194: the two-phase update of one outer iteration, written back
\* to the model.
LoopUpdate ==
  /\ pc = "loop"
  /\ iter < l2v_iter
  /\ \E fins \in BOOLEAN \X BOOLEAN :
       LET r == update_optimization_params(syn0, centers, radius, beta, eta,
                                           iter + 1, seq, fins)
       IN  /\ syn0' = r.penalty_embeddings
           /\ centers' = r.centers
           /\ radius' = r.radii
           /\ calls' = calls
                \o <<Call("update_optimization_params", iter + 1, syn0, centers,
                          radius, beta, eta,
                          <<r.penalty_embeddings, r.centers, r.radii>>)>>
                \o r.calls
  /\ seq' = seq + 2
  /\ pc' = "penalty"
  /\ UNCHANGED <<gvars_but_pc, nodes, neighbors, embeddings, si, error,
                 l2v_iter, iter, beta, eta, saved>>

\* Lines 196-197.
PenaltyError ==
  /\ pc = "penalty"
  /\ calls' = Append(calls, Call("measure_penalty_error", iter + 1, syn0, centers,
                                 radius, beta, eta, NoValue))
  /\ pc' = "train"
  /\ UNCHANGED <<gvars_but_pc, nodes, neighbors, embeddings, centers, radius, si,
                 error, l2v_iter, iter, beta, eta, syn0, seq, saved>>

\* Lines 198-200: the trainer goes on from model.syn0, then beta doubles.
Train ==
  /\ pc = "train"
  /\ calls' = Append(calls, Call("train", iter + 1, syn0, centers, radius, beta,
                                 eta, Value(seq + 1, syn0.finite)))
  /\ syn0' = Value(seq + 1, syn0.finite)
  /\ seq' = seq + 1
  /\ beta' = next_beta(beta)
  /\ iter' = iter + 1
  /\ pc' = "loop"
  /\ UNCHANGED <<gvars_but_pc, nodes, neighbors, embeddings, centers, radius, si,
                 error, l2v_iter, eta, saved>>

\* Lines 203-206: the final update, called without beta and eta.
FinalUpdate ==
  /\ pc = "loop"
  /\ iter >= l2v_iter
  /\ \E fins \in BOOLEAN \X BOOLEAN :
       LET r == update_optimization_params(syn0, centers, radius, DefaultBeta,
                                           DefaultEta, 0, seq, fins)
       IN  /\ syn0' = r.penalty_embeddings
           /\ centers' = r.centers
           /\ radius' = r.radii
           /\ calls' = calls
                \o <<Call("update_optimization_params", 0, syn0, centers, radius,
                          DefaultBeta, DefaultEta,
                          <<r.penalty_embeddings, r.centers, r.radii>>)>>
                \o r.calls
  /\ seq' = seq + 2
  /\ pc' = "save"
  /\ UNCHANGED <<gvars_but_pc, nodes, neighbors, embeddings, si, error,
                 l2v_iter, iter, beta, eta, saved>>

\* Lines 208-209.
Save ==
  /\ pc = "save"
  /\ saved' = syn0
  /\ pc' = "saved"
  /\ UNCHANGED <<gvars_but_pc, svars, l2v_iter, iter, beta, eta, syn0, seq, calls>>

LearnNext ==
  LearnBegin \/ LoopUpdate \/ PenaltyError \/ Train \/ FinalUpdate \/ Save

SpecLearn == LearnInit /\ [][LearnNext]_vars

-----------------------------------------------------------------------------
(* Claims about learn_embeddings *)

\* The positions in calls of the invocations of update_optimization_params.
Invocations == {j \in 1 .. Len(calls) : calls[j].fn = "update_optimization_params"}

\* C2: every invocation of update_optimization_params runs the two phases in
\* order and not fused: update_embeddings with the input centers and radii,
\* then update_sphere against the embeddings the first phase returned (not the
\* input embeddings); the embeddings returned are those of the first phase.
C2_TwoPhases ==
  /\ \A j \in Invocations :
       /\ j + 2 <= Len(calls)
       /\ calls[j + 1].fn = "update_embeddings"
       /\ calls[j + 1].embeddings = calls[j].embeddings
       /\ calls[j + 1].centers = calls[j].centers
       /\ calls[j + 1].radii = calls[j].radii
       /\ calls[j + 2].fn = "update_sphere"
       /\ calls[j + 2].embeddings = calls[j + 1].out
       /\ calls[j + 2].embeddings # calls[j].embeddings
       /\ calls[j + 2].centers = calls[j].centers
       /\ calls[j + 2].radii = calls[j].radii
       /\ calls[j + 1].out.by < calls[j + 2].out.centers.by
       /\ calls[j].out = <<calls[j + 1].out, calls[j + 2].out.centers,
                           calls[j + 2].out.radii>>
  /\ \A j \in 1 .. Len(calls) :
       calls[j].fn \in {"update_embeddings", "update_sphere"} =>
         \E k \in Invocations : j \in {k + 1, k + 2}

C2_Witness == pc = "saved" /\ l2v_iter >= 2 /\ Cardinality(Invocations) = l2v_iter + 1

RECURSIVE Pow2(_)
Pow2(n) == IF n = 0 THEN 1 ELSE 2 * Pow2(n - 1)

AllFinite(c) == c.embeddings.finite /\ c.centers.finite /\ c.radii.finite

\* C9: if a two-phase update leaves a non-finite center, radius or embedding
\* row, the run aborts: the corrupted state is never written back to the
\* model, never passed to the penalty error oracle or to the re-training
\* step, never the input of a later update, and never saved.
C9_AbortOnNonFinite ==
  /\ syn0.finite /\ centers.finite /\ radius.finite
  /\ saved.finite
  /\ \A j \in 1 .. Len(calls) :
       calls[j].fn \in {"update_optimization_params", "measure_penalty_error", "train"}
         => AllFinite(calls[j])

\* C10: the two-phase update is invoked exactly l2v_iter + 1 times over a whole
\* run, and the beta passed to successive invocations never decreases.
C10_InvocationsAndBeta ==
  /\ pc = "saved" => Cardinality(Invocations) = l2v_iter + 1
  /\ \A j \in Invocations, k \in Invocations :
       j < k => calls[j].beta <= calls[k].beta

=============================================================================
